---- MODULE Spec2Model ----
(***************************************************************************)
(* Enforcement lifecycle engine of dastardly-daemon (src/enforcement_new): *)
(* the action taxonomy, the record state machine, the DashMap-backed       *)
(* store and the orchestration service, with concurrent callers.           *)
(*                                                                         *)
(* Time is counted in whole seconds (the unit of every duration).  Every   *)
(* Utc::now() of a call is a read of its own: a later read in the same     *)
(* call may already see the next second.                                   *)
(* Option<T> is modelled as a set: None is {} and Some(v) is {v}.          *)
(***************************************************************************)
EXTENDS Integers, FiniteSets, Sequences, TLC

\* ---------------------------------------------------------------- bounds
\* Largest number of records ever created.
MaxRecords == 1
\* Last value of the clock.
MaxTime == 1
\* Largest duration / delay (seconds) carried by a created action.
MaxDuration == 1
\* History counters saturate here (one above the "at most once" they watch).
CallCap == 2
MaxQueue == 2
\* Largest teleport_count given explicitly.
MaxTeleports == 2

Ids == 1..MaxRecords

\* A sweep is followed over one record more than the callers create.
SweepRecords == MaxRecords + 1
AllIds == 1..SweepRecords
Tasks == {"t1", "t2"}
Users == {12345, 98765}
GuildId == 67890
WarningId == "w1"

None == {}
Some(v) == {v}
IsSome(o) == o # {}
Unwrap(o) == CHOOSE v \in o : TRUE

Min(a, b) == IF a <= b THEN a ELSE b
Bump(n) == Min(n + 1, CallCap)

\* ------------------------------------------------------- action taxonomy
Kinds ==
  {"None", "Mute", "Ban", "Kick", "VoiceMute", "VoiceDeafen",
   "VoiceDisconnect", "VoiceChannelHaunt"}

ParamKinds == Kinds \ {"None", "VoiceChannelHaunt"}

Durations == {None} \cup {Some(d) : d \in 0..MaxDuration}

\* EnforcementAction: ActionParams.duration for the six parameterised kinds,
\* HauntParams.interval for VoiceChannelHaunt, no payload for None.
Action(k, d, i) == [kind |-> k, duration |-> d, interval |-> i]

AllActions ==
  {Action("None", None, None)}
    \cup {Action(k, d, None) : k \in ParamKinds, d \in Durations}
    \cup {Action("VoiceChannelHaunt", None, i) : i \in Durations}

voice_mute(d) == Action("VoiceMute", d, None)
kick(d) == Action("Kick", d, None)

has_duration_is_some(a) == IsSome(a.duration)

has_duration(a) == IsSome(a.duration) /\ Unwrap(a.duration) > 0

needs_reversal(a) ==
  IF a.kind \in {"Mute", "Ban", "VoiceMute", "VoiceDeafen"}
  THEN has_duration(a)
  ELSE FALSE

duration_or_default(a) == IF IsSome(a.duration) THEN Unwrap(a.duration) ELSE 0

is_immediate_haunt_default(a) ==
  IF a.kind \in {"Kick", "VoiceDisconnect"}
  THEN ~has_duration(a) \/ duration_or_default(a) = 0
  ELSE IF a.kind = "VoiceChannelHaunt"
       THEN IsSome(a.interval) /\ Unwrap(a.interval) = 0
       ELSE TRUE

is_immediate_always(a) == TRUE

is_immediate(a) ==
  IF a.kind \in {"Kick", "VoiceDisconnect"}
  THEN ~has_duration(a) \/ duration_or_default(a) = 0
  ELSE IF a.kind = "VoiceChannelHaunt"
       THEN a.interval = None \/ (IsSome(a.interval) /\ Unwrap(a.interval) = 0)
       ELSE TRUE

\* ------------------------------------------------------------ the record
States == {"Pending", "Active", "Reversed", "Completed", "Cancelled"}

calculate_execute_time_immediate(a, t) == t

calculate_execute_time(a, t) ==
  IF a.kind \in {"Kick", "VoiceDisconnect"}
  THEN IF IsSome(a.duration) /\ Unwrap(a.duration) > 0
       THEN t + Unwrap(a.duration)
       ELSE t
  ELSE IF a.kind = "VoiceChannelHaunt"
       THEN IF IsSome(a.interval) /\ Unwrap(a.interval) > 0
            THEN t + Unwrap(a.interval)
            ELSE t
       ELSE t

new_record_reverse_at_set(w, u, g, a, t, t2) ==
  [warning_id |-> w, user_id |-> u, guild_id |-> g, action |-> a,
   execute_at |-> calculate_execute_time(a, t2),
   reverse_at |-> IF needs_reversal(a) THEN Some(t2 + Unwrap(a.duration)) ELSE None,
   state |-> "Pending", created_at |-> t, executed_at |-> None,
   reversed_at |-> None, executed |-> FALSE]

\* new(): t is the read that stamps created_at, t2 the later read inside
\* calculate_execute_time.
new_record(w, u, g, a, t, t2) ==
  [warning_id |-> w, user_id |-> u, guild_id |-> g, action |-> a,
   execute_at |-> calculate_execute_time(a, t2), reverse_at |-> None,
   state |-> "Pending", created_at |-> t, executed_at |-> None,
   reversed_at |-> None, executed |-> FALSE]

calculate_reversal_time_any_kind(r, t) ==
  IF has_duration(r.action) THEN Some(t + Unwrap(r.action.duration)) ELSE None

calculate_reversal_time_no_duration(r, t) ==
  IF needs_reversal(r.action) THEN Some(t) ELSE None

calculate_reversal_time(r, t) ==
  IF ~needs_reversal(r.action)
  THEN None
  ELSE IF r.action.kind \in {"Mute", "Ban", "VoiceMute", "VoiceDeafen"}
       THEN IF IsSome(r.action.duration) /\ Unwrap(r.action.duration) > 0
            THEN Some(t + Unwrap(r.action.duration))
            ELSE None
       ELSE None

\* Guards of the three record-level transitions.
can_execute_any(r) == r.state \in {"Pending", "Active"}

can_execute(r) == r.state = "Pending"

can_reverse(r) == r.state = "Active"

can_cancel_any(r) == TRUE

can_cancel(r) == r.state = "Pending" \/ r.state = "Active"

\* What a transition leaves behind when its guard rejects the call.
rejected_stamped(r) == [r EXCEPT !.executed = TRUE]

rejected(r) == r

execute_always_active(r, t, t2) ==
  IF r.state # "Pending"
  THEN [res |-> "InvalidStateTransition", rec |-> r]
  ELSE [res |-> "Ok",
        rec |-> [r EXCEPT !.reverse_at = calculate_reversal_time(r, t),
                          !.state = "Active",
                          !.executed_at = Some(t2),
                          !.executed = TRUE]]

execute_unstamped(r, t, t2) ==
  IF r.state # "Pending"
  THEN [res |-> "InvalidStateTransition", rec |-> r]
  ELSE [res |-> "Ok",
        rec |-> [r EXCEPT !.reverse_at = calculate_reversal_time(r, t),
                          !.state = IF IsSome(calculate_reversal_time(r, t))
                                    THEN "Active" ELSE "Completed",
                          !.executed = TRUE]]

execute_reschedules(r, t, t2) ==
  IF r.state # "Pending"
  THEN [res |-> "InvalidStateTransition", rec |-> r]
  ELSE [res |-> "Ok",
        rec |-> [r EXCEPT !.execute_at = t,
                          !.reverse_at = calculate_reversal_time(r, t),
                          !.state = IF IsSome(calculate_reversal_time(r, t))
                                    THEN "Active" ELSE "Completed",
                          !.executed_at = Some(t2),
                          !.executed = TRUE]]

\* execute(): t is the read inside calculate_reversal_time, t2 the later
\* read that stamps executed_at.
execute(r, t, t2) ==
  IF ~can_execute(r)
  THEN [res |-> "InvalidStateTransition", rec |-> rejected(r)]
  ELSE LET ra == calculate_reversal_time(r, t)
       IN [res |-> "Ok",
           rec |-> [r EXCEPT !.reverse_at = ra,
                             !.state = IF IsSome(ra) THEN "Active"
                                       ELSE "Completed",
                             !.executed_at = Some(t2),
                             !.executed = TRUE]]

reverse_unstamped(r, t) ==
  IF r.state # "Active"
  THEN [res |-> "InvalidStateTransition", rec |-> r]
  ELSE [res |-> "Ok", rec |-> [r EXCEPT !.state = "Reversed"]]

reverse(r, t) ==
  IF ~can_reverse(r)
  THEN [res |-> "InvalidStateTransition", rec |-> rejected(r)]
  ELSE [res |-> "Ok",
        rec |-> [r EXCEPT !.state = "Reversed", !.reversed_at = Some(t)]]

cancel_state_kept(r) == [res |-> "Ok", rec |-> r]

cancel(r) ==
  IF ~can_cancel(r)
  THEN [res |-> "InvalidStateTransition", rec |-> rejected(r)]
  ELSE [res |-> "Ok", rec |-> [r EXCEPT !.state = "Cancelled"]]

is_due_for_execution(r, t) == r.state = "Pending" /\ r.execute_at <= t

is_due_for_reversal(r, t) ==
  r.state = "Active" /\ IsSome(r.reverse_at) /\ Unwrap(r.reverse_at) <= t

execute_enforcement_lenient(recs, id, t, t2) ==
  IF id \notin DOMAIN recs
  THEN [res |-> "NotFound", records |-> recs]
  ELSE IF recs[id].state # "Pending"
       THEN [res |-> "Ok", records |-> recs]
       ELSE LET x == execute(recs[id], t, t2)
            IN [res |-> x.res, records |-> [recs EXCEPT ![id] = x.rec]]

\* ------------------------------------------------------------- the store
\* recs is the map id -> record.  A transition mutates the entry in place
\* through the RefMut, so whatever the record-level call leaves is stored.
execute_enforcement(recs, id, t, t2) ==
  IF id \notin DOMAIN recs
  THEN [res |-> "NotFound", records |-> recs]
  ELSE IF recs[id].state # "Pending"
       THEN [res |-> "InvalidStateTransition", records |-> recs]
       ELSE LET x == execute(recs[id], t, t2)
            IN [res |-> x.res, records |-> [recs EXCEPT ![id] = x.rec]]

reverse_enforcement(recs, id, t) ==
  IF id \notin DOMAIN recs
  THEN [res |-> "NotFound", records |-> recs]
  ELSE IF recs[id].state # "Active"
       THEN [res |-> "InvalidStateTransition", records |-> recs]
       ELSE LET x == reverse(recs[id], t)
            IN [res |-> x.res, records |-> [recs EXCEPT ![id] = x.rec]]

cancel_enforcement_invalid(recs, id) ==
  IF id \in DOMAIN recs /\ recs[id].state \in {"Pending", "Active"}
  THEN LET x == cancel(recs[id])
       IN [res |-> x.res, records |-> [recs EXCEPT ![id] = x.rec]]
  ELSE [res |-> "InvalidStateTransition", records |-> recs]

cancel_enforcement(recs, id) ==
  IF id \notin DOMAIN recs
  THEN [res |-> "NotFound", records |-> recs]
  ELSE IF recs[id].state # "Pending" /\ recs[id].state # "Active"
       THEN [res |-> "InvalidStateTransition", records |-> recs]
       ELSE LET x == cancel(recs[id])
            IN [res |-> x.res, records |-> [recs EXCEPT ![id] = x.rec]]

get_active_for_user(recs, u, g) ==
  {id \in DOMAIN recs :
     recs[id].user_id = u /\ recs[id].guild_id = g /\ recs[id].state = "Active"}

get_pending_for_user(recs, u, g) ==
  {id \in DOMAIN recs :
     recs[id].user_id = u /\ recs[id].guild_id = g /\ recs[id].state = "Pending"}

get_pending_for_execution_any(recs, t) ==
  {id \in DOMAIN recs : recs[id].state = "Pending"}

get_pending_for_execution(recs, t) ==
  {id \in DOMAIN recs : recs[id].state = "Pending" /\ recs[id].execute_at <= t}

get_active_for_reversal(recs, t) ==
  {id \in DOMAIN recs :
     /\ recs[id].state = "Active"
     /\ IsSome(recs[id].reverse_at)
     /\ Unwrap(recs[id].reverse_at) <= t}

\* The filter of store cancel_all_for_user.
cancel_all_matches(r, u, g) ==
  r.user_id = u /\ r.guild_id = g /\ (r.state = "Pending" \/ r.state = "Active")

\* Store cancel_all_for_user with no other caller at work: the records the
\* filter passes, and the map and the returned list once cancel_enforcement
\* has been called for the ids in S.
cancel_all_matching(recs, u, g) ==
  {id \in DOMAIN recs : cancel_all_matches(recs[id], u, g)}

cancel_all_over(recs, S) ==
  [records |-> [id \in DOMAIN recs |->
                  IF id \in S THEN cancel_enforcement(recs, id).records[id]
                  ELSE recs[id]],
   ret |-> {id \in S : cancel_enforcement(recs, id).res = "Ok"}]


\* ------------------------------------------------------ handler registry
\* Outcomes of the registered handler's execute / reverse for an action:
\* "Ok", or the error it can return.
handler_execute(a) ==
  CASE a.kind = "None" -> {"Ok"}
    [] a.kind \in {"Ban", "Kick"} -> {"ValidationFailed"}
    [] OTHER -> {"Ok", "DiscordApi"}

handler_reverse(a) ==
  IF a.kind \in {"Ban", "VoiceMute", "VoiceDeafen"}
  THEN {"Ok", "DiscordApi"}
  ELSE {"Ok"}

\* ------------------------------------------------------------- the state
VARIABLES
  records,    \* EnforcementStore.records: id -> EnforcementRecord
  now,        \* Utc::now(), in seconds
  tasks,      \* per concurrent caller: position inside the service call
  last,       \* the service call that returned last, and its result
  lastStore,  \* the direct store call that returned last, with the record before it
  hist,       \* per id: handler invocations and store transitions so far
  frozen,     \* ids whose shard is read-locked for ever by a stuck iterator
  loop,       \* the scheduling task: sender, channel, position, sweep lists
  haunt       \* a VoiceChannelHauntHandler::execute call: position, locals, calls made

vars == <<records, now, tasks, last, lastStore, hist, frozen, loop, haunt>>

Idle ==
  [pc |-> "idle", op |-> "none", id |-> 0, todo |-> {}, user |-> 0,
   held |-> {}, moved |-> {}, ret |-> {}]

NoCall == [op |-> "none", res |-> "none", herr |-> "none"]

NoStoreCall ==
  [op |-> "none", id |-> 0, user |-> 0, res |-> "none", at |-> 0,
   pre |-> None, ret |-> {}]

NoHist == [execCalls |-> 0, revCalls |-> 0, execOk |-> 0, leftActive |-> 0]

\* EnforcementService::new: tx is None and no task is spawned.
NoLoop ==
  [tx |-> FALSE, pc |-> "off", shut |-> FALSE, queue |-> <<>>, user |-> 0,
   pending |-> {}, active |-> {}, due |-> {}, done |-> {}]

\* No handler call is running.
NoHaunt ==
  [pc |-> "idle", teleport_count |-> 0, delay_seconds |-> 0,
   return_to_original |-> FALSE, i |-> 0, failed |-> FALSE, log |-> <<>>,
   res |-> "none",
   params |-> [teleport_count |-> None, interval |-> None,
               return_to_origin |-> None]]

Init ==
  /\ records = <<>>
  /\ now = 0
  /\ tasks = [t \in Tasks |-> Idle]
  /\ last = NoCall
  /\ lastStore = NoStoreCall
  /\ hist = [id \in AllIds |-> NoHist]
  /\ frozen = {}
  /\ loop = NoLoop
  /\ haunt = NoHaunt

\* EnforcementStore::get: the Ref it returns is a read guard on the entry.
store_get(recs, id) == IF id \in DOMAIN recs THEN {id} ELSE {}

\* drop(record), or the end of the block the Ref lives in.
drop_guard(g) == {}

record_ref_guard(id) == {id}

\* What the caller of a store transition holds once it returned Ok: the
\* store returns a clone and its RefMut ends with the call.
record_clone_guard(id) == {}

\* get_mut(id) takes the write lock of id's shard.
CanLock(id) == id \notin frozen /\ \A t \in Tasks : id \notin tasks[t].held

\* What a later Utc::now() of the same call can return after one returned t.
LaterNow(t) == {t2 \in t..MaxTime : t2 <= t + 1}

Tick ==
  /\ now < MaxTime
  /\ now' = now + 1
  /\ UNCHANGED <<records, tasks, last, lastStore, hist, frozen, loop, haunt>>

\* Actions the callers of the service create records for.
ServiceActions == {voice_mute(Some(MaxDuration)), kick(Some(MaxDuration))}

\* Users the callers of the service act on.
ServiceUsers == {12345}

NextId == Cardinality(DOMAIN records) + 1

Insert(recs, id, r) == [i \in DOMAIN recs \cup {id} |-> IF i = id THEN r ELSE recs[i]]

create_record(n, u, a) ==
  /\ NextId <= n
  /\ CanLock(NextId)
  /\ \E t2 \in LaterNow(now) :
       /\ records' = Insert(records, NextId,
                            new_record(WarningId, u, GuildId, a, now, t2))
       /\ now' = t2
  /\ UNCHANGED <<tasks, last, lastStore, hist, frozen, loop, haunt>>

create_enforcement(u, a) ==
  /\ NextId \in Ids
  /\ create_record(MaxRecords, u, a)

\* A service call of task t returns res.  Inside cancel_all_for_user the
\* result of cancel_enforcement is only logged and the loop goes on.
Return(t, res, herr) ==
  IF tasks[t].op = "cancel_all"
  THEN /\ tasks' = [tasks EXCEPT ![t].pc = "ca_loop", ![t].id = 0]
       /\ last' = last
  ELSE /\ tasks' = [tasks EXCEPT ![t] = Idle]
       /\ last' = [op |-> tasks[t].op, res |-> res, herr |-> herr]

\* ------------------------------------------------ process_enforcement(id)
\* Whether the Pending branch goes on to execute_enforcement: the branch is
\* taken on the state alone.
pending_branch_runs(r, t) == TRUE

reversal_due_always(ra, t) == IsSome(ra)

reversal_due(ra, t) == IsSome(ra) /\ Unwrap(ra) <= t

process_enforcement_call(t, id) ==
  /\ tasks[t].pc = "idle"
  /\ UNCHANGED <<records, now, lastStore, hist, frozen, haunt>>
  /\ IF id \notin DOMAIN records
     THEN /\ tasks' = tasks
          /\ last' = [op |-> "process", res |-> "NotFound", herr |-> "none"]
     ELSE IF records[id].state = "Pending" /\ pending_branch_runs(records[id], now)
          THEN /\ tasks' = [tasks EXCEPT ![t] = [Idle EXCEPT !.pc = "p_execute", !.op = "process", !.id = id,
                                                             !.held = drop_guard(store_get(records, id))]]
               /\ last' = last
          ELSE IF records[id].state = "Active"
               THEN /\ tasks' = [tasks EXCEPT ![t] = [Idle EXCEPT !.pc = "p_active", !.op = "process", !.id = id,
                                                                  !.held = drop_guard(store_get(records, id))]]
                    /\ last' = last
               ELSE /\ tasks' = tasks
                    /\ last' = [op |-> "process", res |-> "Ok", herr |-> "none"]

\* process_enforcement called by a caller of the service.
process_enforcement_get(t, id) ==
  /\ process_enforcement_call(t, id)
  /\ UNCHANGED loop

\* Where the Pending branch goes after execute_enforcement returned res.
after_execute_always(res) == "p_call_execute"

after_execute(res) == IF res = "Ok" THEN "p_call_execute" ELSE "return"

process_execute(t) ==
  /\ tasks[t].pc = "p_execute"
  /\ CanLock(tasks[t].id)
  /\ \E t2 \in LaterNow(now) :
       LET id == tasks[t].id
           x == execute_enforcement(records, id, now, t2)
       IN /\ records' = x.records
          /\ now' = IF x.res = "Ok" THEN t2 ELSE now
          /\ hist' = IF x.res = "Ok"
                     THEN [hist EXCEPT ![id].execOk = Bump(@)]
                     ELSE hist
          /\ IF after_execute(x.res) = "return"
             THEN Return(t, "Ok", "none")
             ELSE /\ tasks' = [tasks EXCEPT ![t].pc = after_execute(x.res),
                                            ![t].held = record_clone_guard(id)]
                  /\ last' = last
  /\ UNCHANGED <<lastStore, frozen, loop, haunt>>

process_call_execute(t) ==
  /\ tasks[t].pc = "p_call_execute"
  /\ tasks' = [tasks EXCEPT ![t].pc = "p_in_execute"]
  /\ hist' = [hist EXCEPT ![tasks[t].id].execCalls = Bump(@)]
  /\ UNCHANGED <<records, now, last, lastStore, frozen, loop, haunt>>

\* What process_enforcement returns after the handler returned hres: the
\* error is logged only.
process_result(hres) == "Ok"

\* What the sweep path does to the store when the handler returned hres.
after_handler_execute_rollback(recs, id, hres) ==
  IF hres = "Ok" THEN recs ELSE [recs EXCEPT ![id].state = "Pending"]

after_handler_execute(recs, id, hres) == recs

after_handler_reverse_removes(recs, id, hres) ==
  [i \in DOMAIN recs \ {id} |-> recs[i]]

after_handler_reverse(recs, id, hres) == recs

process_execute_return(t) ==
  /\ tasks[t].pc = "p_in_execute"
  /\ \E hres \in handler_execute(records[tasks[t].id].action) :
       /\ records' = after_handler_execute(records, tasks[t].id, hres)
       /\ Return(t, process_result(hres), hres)
  /\ UNCHANGED <<now, lastStore, hist, frozen, loop, haunt>>

process_active_check(t) ==
  /\ tasks[t].pc = "p_active"
  /\ IF reversal_due(records[tasks[t].id].reverse_at, now)
     THEN /\ tasks' = [tasks EXCEPT ![t].pc = "p_reverse",
                                    ![t].held = drop_guard(store_get(records, tasks[t].id))]
          /\ last' = last
     ELSE Return(t, "Ok", "none")
  /\ UNCHANGED <<records, now, lastStore, hist, frozen, loop, haunt>>

after_reverse(res) == IF res = "Ok" THEN "p_call_reverse" ELSE "return"

process_reverse(t) ==
  /\ tasks[t].pc = "p_reverse"
  /\ CanLock(tasks[t].id)
  /\ LET id == tasks[t].id
         x == reverse_enforcement(records, id, now)
     IN /\ records' = x.records
        /\ hist' = IF x.res = "Ok"
                   THEN [hist EXCEPT ![id].leftActive = Bump(@)]
                   ELSE hist
        /\ IF after_reverse(x.res) = "return"
           THEN Return(t, "Ok", "none")
           ELSE /\ tasks' = [tasks EXCEPT ![t].pc = after_reverse(x.res),
                                          ![t].held = record_clone_guard(id)]
                /\ last' = last
  /\ UNCHANGED <<now, lastStore, frozen, loop, haunt>>

process_call_reverse(t) ==
  /\ tasks[t].pc = "p_call_reverse"
  /\ tasks' = [tasks EXCEPT ![t].pc = "p_in_reverse"]
  /\ hist' = [hist EXCEPT ![tasks[t].id].revCalls = Bump(@)]
  /\ UNCHANGED <<records, now, last, lastStore, frozen, loop, haunt>>

process_reverse_return(t) ==
  /\ tasks[t].pc = "p_in_reverse"
  /\ \E hres \in handler_reverse(records[tasks[t].id].action) :
       /\ records' = after_handler_reverse(records, tasks[t].id, hres)
       /\ Return(t, process_result(hres), hres)
  /\ UNCHANGED <<now, lastStore, hist, frozen, loop, haunt>>


\* ------------------------------------------------- cancel_enforcement(id)
\* The first step of cancel_enforcement on a record that is in the store.
CancelGet_reverses_always(t, op, id, todo, user) ==
  [pc |-> "c_cancel_active", op |-> op, id |-> id, todo |-> todo, user |-> user,
   held |-> drop_guard(store_get(records, id)),
   moved |-> tasks[t].moved, ret |-> tasks[t].ret]

CancelGet(t, op, id, todo, user) ==
  [pc |-> IF records[id].state = "Active" THEN "c_cancel_active" ELSE "c_cancel_other",
   op |-> op, id |-> id, todo |-> todo, user |-> user,
   held |-> drop_guard(store_get(records, id)),
   moved |-> tasks[t].moved, ret |-> tasks[t].ret]

cancel_enforcement_get(t, id) ==
  /\ tasks[t].pc = "idle"
  /\ UNCHANGED <<records, now, lastStore, hist, frozen, loop, haunt>>
  /\ IF id \notin DOMAIN records
     THEN /\ tasks' = tasks
          /\ last' = [op |-> "cancel", res |-> "NotFound", herr |-> "none"]
     ELSE /\ tasks' = [tasks EXCEPT ![t] = CancelGet(t, "cancel", id, {}, 0)]
          /\ last' = last

\* Where the Active branch goes after the store's cancel_enforcement
\* returned res (the ? operator returns the error).
after_cancel_always(res) == "c_call_reverse"

after_cancel(res) == IF res = "Ok" THEN "c_call_reverse" ELSE "return"

CancelHist(id, t, x) ==
  IF x.res = "Ok" /\ records[id].state = "Active"
  THEN [hist EXCEPT ![id].leftActive = Bump(@)]
  ELSE hist

\* The records a running cancel_all_for_user call has itself moved to
\* Cancelled, kept while the call runs: the store's cancel_enforcement
\* returned res for id.
CallMoved(t, id, res) ==
  IF tasks[t].op = "cancel_all" /\ res = "Ok"
  THEN tasks[t].moved \cup {id}
  ELSE tasks[t].moved

cancel_store_active(t) ==
  /\ tasks[t].pc = "c_cancel_active"
  /\ CanLock(tasks[t].id)
  /\ LET id == tasks[t].id
         x == cancel_enforcement(records, id)
     IN /\ records' = x.records
        /\ hist' = CancelHist(id, t, x)
        /\ IF after_cancel(x.res) = "return"
           THEN Return(t, x.res, "none")
           ELSE /\ tasks' = [tasks EXCEPT ![t].pc = after_cancel(x.res),
                                          ![t].held = record_clone_guard(id),
                                          ![t].moved = CallMoved(t, id, x.res)]
                /\ last' = last
  /\ UNCHANGED <<now, lastStore, frozen, loop, haunt>>

cancel_call_reverse(t) ==
  /\ tasks[t].pc = "c_call_reverse"
  /\ tasks' = [tasks EXCEPT ![t].pc = "c_in_reverse"]
  /\ hist' = [hist EXCEPT ![tasks[t].id].revCalls = Bump(@)]
  /\ UNCHANGED <<records, now, last, lastStore, frozen, loop, haunt>>

cancel_reverse_return(t) ==
  /\ tasks[t].pc = "c_in_reverse"
  /\ \E hres \in handler_reverse(records[tasks[t].id].action) :
       Return(t, "Ok", hres)
  /\ UNCHANGED <<records, now, lastStore, hist, frozen, loop, haunt>>

cancel_store_other(t) ==
  /\ tasks[t].pc = "c_cancel_other"
  /\ CanLock(tasks[t].id)
  /\ LET id == tasks[t].id
         x == cancel_enforcement(records, id)
     IN /\ records' = x.records
        /\ hist' = CancelHist(id, t, x)
        /\ Return(t, x.res, "none")
  /\ UNCHANGED <<now, lastStore, frozen, loop, haunt>>

\* --------------------------------------- cancel_all_for_user(user, guild)
cancel_all_for_user_get(t, u) ==
  /\ tasks[t].pc = "idle"
  /\ tasks' = [tasks EXCEPT ![t] =
       [pc |-> "ca_loop", op |-> "cancel_all", id |-> 0,
        todo |-> get_active_for_user(records, u, GuildId), user |-> u,
        held |-> {}, moved |-> {}, ret |-> {}]]
  /\ UNCHANGED <<records, now, last, lastStore, hist, frozen, loop, haunt>>

\* One round of the loop over the records that were Active: it calls
\* cancel_enforcement, whose first step reads the record again.
cancel_all_next(t) ==
  /\ tasks[t].pc = "ca_loop"
  /\ \E id \in tasks[t].todo :
       tasks' = [tasks EXCEPT ![t] =
         CancelGet(t, "cancel_all", id, tasks[t].todo \ {id}, tasks[t].user)]
  /\ UNCHANGED <<records, now, last, lastStore, hist, frozen, loop, haunt>>

\* The loop is over: the store's cancel_all_for_user starts to iterate.
cancel_all_store_start(t) ==
  /\ tasks[t].pc = "ca_loop"
  /\ tasks[t].todo = {}
  /\ tasks' = [tasks EXCEPT ![t].pc = "ca_store", ![t].todo = DOMAIN records]
  /\ UNCHANGED <<records, now, last, lastStore, hist, frozen, loop, haunt>>

\* The list `cancelled` of the store's cancel_all_for_user after
\* cancel_enforcement returned res for id: only an Ok result is pushed.
cancelled_push(list, id, res) == IF res = "Ok" THEN list \cup {id} ELSE list

\* The iterator yields a record that does not pass the filter.
store_cancel_all_skip(t) ==
  /\ tasks[t].pc = "ca_store"
  /\ \E id \in tasks[t].todo :
       /\ ~cancel_all_matches(records[id], tasks[t].user, GuildId)
       /\ tasks' = [tasks EXCEPT ![t].todo = @ \ {id}]
  /\ UNCHANGED <<records, now, last, lastStore, hist, frozen, loop, haunt>>

\* The iterator yields a matching record and cancel_enforcement gets the
\* write lock of its shard.
store_cancel_all_step(t) ==
  /\ tasks[t].pc = "ca_store"
  /\ \E id \in tasks[t].todo :
       /\ cancel_all_matches(records[id], tasks[t].user, GuildId)
       /\ CanLock(id)
       /\ LET x == cancel_enforcement(records, id)
          IN /\ records' = x.records
             /\ hist' = CancelHist(id, t, x)
             /\ tasks' = [tasks EXCEPT ![t].todo = @ \ {id},
                                       ![t].moved = CallMoved(t, id, x.res),
                                       ![t].ret = cancelled_push(@, id, x.res)]
  /\ UNCHANGED <<now, last, lastStore, frozen, loop, haunt>>

\* The iterator yields a matching record and cancel_enforcement waits for
\* the write lock of the shard the iterator still holds the read lock of.
store_cancel_all_block(t) ==
  /\ tasks[t].pc = "ca_store"
  /\ \E id \in tasks[t].todo :
       /\ cancel_all_matches(records[id], tasks[t].user, GuildId)
       /\ tasks' = [tasks EXCEPT ![t].pc = "ca_blocked", ![t].id = id]
       /\ frozen' = frozen \cup {id}
  /\ UNCHANGED <<records, now, last, lastStore, hist, loop, haunt>>

\* The value of cancel_all_for_user: Ok(cancelled), the list the store's
\* cancel_all_for_user returned.
cancel_all_result(t) == tasks[t].ret

cancel_all_return(t) ==
  /\ tasks[t].pc = "ca_store"
  /\ tasks[t].todo = {}
  /\ tasks' = [tasks EXCEPT ![t] = Idle]
  /\ last' = [op |-> "cancel_all", res |-> "Ok", herr |-> "none"]
  /\ UNCHANGED <<records, now, lastStore, hist, frozen, loop, haunt>>

\* ---------------------------------------------------- the scheduling task
\* The task spawned by start_task_with_receiver runs its process_enforcement
\* calls as LoopTask; Caller is a caller of the service beside it.
LoopTask == "t1"
Caller == "t2"

\* EnforcementCheckRequest
CheckAll == [kind |-> "CheckAll", user |-> 0, id |-> 0]
CheckUser(u) == [kind |-> "CheckUser", user |-> u, id |-> 0]
CheckEnforcement(id) == [kind |-> "CheckEnforcement", user |-> 0, id |-> id]
Shutdown == [kind |-> "Shutdown", user |-> 0, id |-> 0]

\* import_and_start: the channel is created, the sender set and the task
\* spawned with the receiver.
import_and_start ==
  /\ loop.pc = "off"
  /\ loop' = [loop EXCEPT !.tx = TRUE, !.pc = "select"]
  /\ UNCHANGED <<records, now, tasks, last, lastStore, hist, frozen, haunt>>

channel_send_unwired(l, req) == [queue |-> Append(l.queue, req), res |-> "Ok"]

\* `if let Some(tx) = &*self.tx { tx.send(req).await }`: without a sender,
\* or once the receiver is gone, the request is not queued and the call
\* returns EnforcementError::Other.
channel_send(l, req) ==
  IF ~l.tx \/ l.pc = "stopped"
  THEN [queue |-> l.queue, res |-> "Other"]
  ELSE [queue |-> Append(l.queue, req), res |-> "Ok"]

\* send().await returns once the channel has room.
HasRoom == Len(loop.queue) < MaxQueue \/ loop.pc = "stopped"

notify_about_user(u) ==
  /\ HasRoom
  /\ LET x == channel_send(loop, CheckUser(u))
     IN /\ loop' = [loop EXCEPT !.queue = x.queue]
        /\ last' = [op |-> "notify_about_user", res |-> x.res, herr |-> "none"]
  /\ UNCHANGED <<records, now, tasks, lastStore, hist, frozen, haunt>>

notify_about_enforcement(id) ==
  /\ HasRoom
  /\ LET x == channel_send(loop, CheckEnforcement(id))
     IN /\ loop' = [loop EXCEPT !.queue = x.queue]
        /\ last' = [op |-> "notify_about_enforcement", res |-> x.res,
                    herr |-> "none"]
  /\ UNCHANGED <<records, now, tasks, lastStore, hist, frozen, haunt>>

notify_check_all ==
  /\ HasRoom
  /\ LET x == channel_send(loop, CheckAll)
     IN /\ loop' = [loop EXCEPT !.queue = x.queue]
        /\ last' = [op |-> "notify_check_all", res |-> x.res, herr |-> "none"]
  /\ UNCHANGED <<records, now, tasks, lastStore, hist, frozen, haunt>>

\* A holder of the sender returned by create_enforcement_channel sends
\* Shutdown.
send_shutdown ==
  /\ loop.tx
  /\ loop.pc # "stopped"
  /\ Len(loop.queue) < MaxQueue
  /\ loop' = [loop EXCEPT !.queue = Append(@, Shutdown)]
  /\ UNCHANGED <<records, now, tasks, last, lastStore, hist, frozen, haunt>>

\* The task is at select!: the request or the sweep before is over.
AtSelect == loop.pc = "select" /\ tasks[LoopTask].pc = "idle"

\* interval.tick() fires.
interval_tick ==
  /\ AtSelect
  /\ loop' = [loop EXCEPT !.pc = "check_all"]
  /\ UNCHANGED <<records, now, tasks, last, lastStore, hist, frozen, haunt>>

recv_check_all ==
  /\ AtSelect
  /\ loop.queue # <<>>
  /\ Head(loop.queue).kind = "CheckAll"
  /\ loop' = [loop EXCEPT !.pc = "check_all", !.queue = Tail(@)]
  /\ UNCHANGED <<records, now, tasks, last, lastStore, hist, frozen, haunt>>

recv_check_user ==
  /\ AtSelect
  /\ loop.queue # <<>>
  /\ Head(loop.queue).kind = "CheckUser"
  /\ loop' = [loop EXCEPT !.pc = "check_user", !.queue = Tail(@),
                          !.user = Head(loop.queue).user]
  /\ UNCHANGED <<records, now, tasks, last, lastStore, hist, frozen, haunt>>

recv_check_enforcement ==
  /\ AtSelect
  /\ loop.queue # <<>>
  /\ Head(loop.queue).kind = "CheckEnforcement"
  /\ process_enforcement_call(LoopTask, Head(loop.queue).id)
  /\ loop' = [loop EXCEPT !.queue = Tail(@)]

after_shutdown_goes_on == "select"

\* Shutdown: break out of the loop.
after_shutdown == "stopped"

recv_shutdown ==
  /\ AtSelect
  /\ loop.queue # <<>>
  /\ Head(loop.queue).kind = "Shutdown"
  /\ loop' = [loop EXCEPT !.pc = after_shutdown, !.shut = TRUE,
                          !.queue = Tail(@)]
  /\ UNCHANGED <<records, now, tasks, last, lastStore, hist, frozen, haunt>>

\* check_all_enforcements: the two lists are read one after the other.
check_all_pending ==
  /\ loop.pc = "check_all"
  /\ loop' = [loop EXCEPT !.pc = "check_all_active",
                          !.pending = get_pending_for_execution(records, now)]
  /\ UNCHANGED <<records, now, tasks, last, lastStore, hist, frozen, haunt>>

check_all_active ==
  /\ loop.pc = "check_all_active"
  /\ LET ids == get_active_for_reversal(records, now)
     IN loop' = [loop EXCEPT !.pc = "sweep", !.active = ids,
                             !.due = loop.pending \cup ids, !.done = {}]
  /\ UNCHANGED <<records, now, tasks, last, lastStore, hist, frozen, haunt>>

sweep_stops_on_failure(l) ==
  ~(l.op = "process" /\ (l.res # "Ok" \/ l.herr # "none"))

\* Whether the for loops go on after process_enforcement returned l: an
\* error is logged only.
sweep_goes_on(l) == TRUE

\* The ids the for loops have not reached yet: pending_ids first.
SweepTodo == IF loop.pending # {} THEN loop.pending ELSE loop.active

sweep_process ==
  /\ loop.pc = "sweep"
  /\ sweep_goes_on(last)
  /\ \E id \in SweepTodo :
       /\ process_enforcement_call(LoopTask, id)
       /\ loop' = [loop EXCEPT !.pending = @ \ {id},
                               !.active = IF loop.pending # {} THEN @ ELSE @ \ {id},
                               !.done = @ \cup {id}]

check_all_return ==
  /\ loop.pc = "sweep"
  /\ tasks[LoopTask].pc = "idle"
  /\ SweepTodo = {} \/ ~sweep_goes_on(last)
  /\ loop' = [loop EXCEPT !.pc = "select", !.pending = {}, !.active = {},
                          !.due = {}, !.done = {}]
  /\ UNCHANGED <<records, now, tasks, last, lastStore, hist, frozen, haunt>>

\* check_user_enforcements: the two lists hold clones of the records.
check_user_pending ==
  /\ loop.pc = "check_user"
  /\ loop' = [loop EXCEPT !.pc = "check_user_active",
                          !.pending = get_pending_for_user(records, loop.user, GuildId)]
  /\ UNCHANGED <<records, now, tasks, last, lastStore, hist, frozen, haunt>>

check_user_active ==
  /\ loop.pc = "check_user_active"
  /\ loop' = [loop EXCEPT !.pc = "user_sweep",
                          !.active = get_active_for_user(records, loop.user, GuildId)]
  /\ UNCHANGED <<records, now, tasks, last, lastStore, hist, frozen, haunt>>

clone_always_due(id) == TRUE

\* is_due_for_execution / is_due_for_reversal of the clone taken when the
\* list was read, at the time the for loop reaches it.
clone_is_due(id) ==
  IF loop.pending # {}
  THEN is_due_for_execution([records[id] EXCEPT !.state = "Pending"], now)
  ELSE is_due_for_reversal([records[id] EXCEPT !.state = "Active"], now)

user_sweep_process ==
  /\ loop.pc = "user_sweep"
  /\ tasks[LoopTask].pc = "idle"
  /\ \E id \in SweepTodo :
       /\ loop' = [loop EXCEPT !.pending = @ \ {id},
                               !.active = IF loop.pending # {} THEN @ ELSE @ \ {id}]
       /\ IF clone_is_due(id)
          THEN process_enforcement_call(LoopTask, id)
          ELSE UNCHANGED <<records, now, tasks, last, lastStore, hist, frozen, haunt>>

check_user_return ==
  /\ loop.pc = "user_sweep"
  /\ tasks[LoopTask].pc = "idle"
  /\ SweepTodo = {}
  /\ loop' = [loop EXCEPT !.pc = "select", !.user = 0]
  /\ UNCHANGED <<records, now, tasks, last, lastStore, hist, frozen, haunt>>

\* ------------------------------------- direct record and store callers
\* Actions records are made for when the record and the store are driven
\* directly: a reversible kind with its duration absent, zero and positive,
\* a delayed one-shot kind and the payload-free kind.
StoreActions ==
  {Action("Mute", d, None) : d \in {None, Some(0), Some(MaxDuration)}}
    \cup {kick(Some(MaxDuration)), Action("None", None, None)}

StoreCall(op, id, res) ==
  [op |-> op, id |-> id, user |-> 0, res |-> res, at |-> now,
   pre |-> IF id \in DOMAIN records THEN Some(records[id]) ELSE None,
   ret |-> {}]

\* EnforcementRecord::new followed by EnforcementStore::add.
store_add(u, a) ==
  /\ NextId \in Ids
  /\ \E t2 \in LaterNow(now) :
       /\ records' = Insert(records, NextId,
                            new_record(WarningId, u, GuildId, a, now, t2))
       /\ now' = t2
  /\ lastStore' = StoreCall("add", NextId, "Ok")
  /\ UNCHANGED <<tasks, last, hist, frozen, loop, haunt>>

\* The record's own transition, called on the record itself.
record_execute(id) ==
  /\ id \in DOMAIN records
  /\ \E t2 \in LaterNow(now) :
       LET x == execute(records[id], now, t2)
       IN /\ records' = [records EXCEPT ![id] = x.rec]
          /\ now' = IF x.res = "Ok" THEN t2 ELSE now
          /\ lastStore' = StoreCall("execute", id, x.res)
  /\ UNCHANGED <<tasks, last, hist, frozen, loop, haunt>>

record_reverse(id) ==
  /\ id \in DOMAIN records
  /\ LET x == reverse(records[id], now)
     IN /\ records' = [records EXCEPT ![id] = x.rec]
        /\ lastStore' = StoreCall("reverse", id, x.res)
  /\ UNCHANGED <<now, tasks, last, hist, frozen, loop, haunt>>

record_cancel(id) ==
  /\ id \in DOMAIN records
  /\ LET x == cancel(records[id])
     IN /\ records' = [records EXCEPT ![id] = x.rec]
        /\ lastStore' = StoreCall("cancel", id, x.res)
  /\ UNCHANGED <<now, tasks, last, hist, frozen, loop, haunt>>

store_execute(id) ==
  /\ CanLock(id)
  /\ \E t2 \in LaterNow(now) :
       LET x == execute_enforcement(records, id, now, t2)
       IN /\ records' = x.records
          /\ now' = IF x.res = "Ok" THEN t2 ELSE now
          /\ lastStore' = StoreCall("execute", id, x.res)
  /\ UNCHANGED <<tasks, last, hist, frozen, loop, haunt>>

store_reverse(id) ==
  /\ CanLock(id)
  /\ LET x == reverse_enforcement(records, id, now)
     IN /\ records' = x.records
        /\ lastStore' = StoreCall("reverse", id, x.res)
  /\ UNCHANGED <<now, tasks, last, hist, frozen, loop, haunt>>

store_cancel(id) ==
  /\ CanLock(id)
  /\ LET x == cancel_enforcement(records, id)
     IN /\ records' = x.records
        /\ lastStore' = StoreCall("cancel", id, x.res)
  /\ UNCHANGED <<now, tasks, last, hist, frozen, loop, haunt>>

\* Store cancel_all_for_user(u, GuildId), called directly, runs to its end:
\* every cancel_enforcement it calls gets the write lock of its shard.
store_cancel_all_returns(u) ==
  /\ \A id \in cancel_all_matching(records, u, GuildId) : CanLock(id)
  /\ LET x == cancel_all_over(records, cancel_all_matching(records, u, GuildId))
     IN /\ records' = x.records
        /\ lastStore' = [op |-> "cancel_all", id |-> 0, user |-> u, res |-> "Ok",
                         at |-> now, pre |-> None, ret |-> x.ret]
  /\ UNCHANGED <<now, tasks, last, hist, frozen, loop, haunt>>

\* The same call, stuck: after the matches in S, cancel_enforcement for the
\* match b waits for the write lock of the shard whose read lock the
\* iterator of the call still holds.
store_cancel_all_blocks(u) ==
  /\ \A id \in cancel_all_matching(records, u, GuildId) : CanLock(id)
  /\ \E b \in cancel_all_matching(records, u, GuildId) :
       \E S \in SUBSET (cancel_all_matching(records, u, GuildId) \ {b}) :
         /\ records' = cancel_all_over(records, S).records
         /\ frozen' = frozen \cup {b}
         /\ lastStore' = [op |-> "cancel_all", id |-> b, user |-> u,
                          res |-> "Blocked", at |-> now, pre |-> None,
                          ret |-> {}]
  /\ UNCHANGED <<now, tasks, last, hist, loop, haunt>>

\* --------------------------------------- VoiceChannelHauntHandler::execute
\* HauntParams: teleport_count, interval and return_to_origin are options.
TeleportCounts == {None} \cup {Some(n) : n \in 0..MaxTeleports}
ReturnChoices == {None, Some(TRUE), Some(FALSE)}

teleport_count_or_default(tc) == IF IsSome(tc) THEN Unwrap(tc) ELSE 3
interval_or_default(iv) == IF IsSome(iv) THEN Unwrap(iv) ELSE 10
return_to_origin_or_default(rto) == IF IsSome(rto) THEN Unwrap(rto) ELSE TRUE

\* What can stop the call before the loop: the guild or member lookup, the
\* search for the user's voice channel, the channel listing, an empty list.
HauntLookups ==
  {"Ok", "GuildOrMemberNotFound", "NotInVoiceChannel", "DiscordApi",
   "NoVoiceChannels"}

\* The calls the handler has made so far, in order.
Relocation(ev, ok) == [ev |-> ev, ok |-> ok, secs |-> 0]
Sleep(secs) == [ev |-> "wait", ok |-> TRUE, secs |-> secs]

\* Whether the loop sleeps after the teleport of round i.
wait_after_every_teleport(failed, i, teleport_count) == ~failed

wait_before_next(failed, i, teleport_count) ==
  ~failed /\ i < teleport_count - 1

\* Whether the user is sent back once the loop is over.
returns_to_original(return_to_original, failed) ==
  return_to_original /\ ~failed

\* The call starts: a wrong action is refused, a failed lookup returns its
\* error, otherwise the parameters are read and the loop is entered.
haunt_execute(a, tc, rto, lookup) ==
  /\ haunt.pc = "idle"
  /\ haunt' =
       IF a.kind # "VoiceChannelHaunt"
       THEN [NoHaunt EXCEPT !.pc = "done", !.res = "ValidationFailed"]
       ELSE IF lookup # "Ok"
            THEN [NoHaunt EXCEPT !.pc = "done", !.res = lookup]
            ELSE [NoHaunt EXCEPT !.pc = "loop",
                                 !.params = [teleport_count |-> tc,
                                             interval |-> a.interval,
                                             return_to_origin |-> rto],
                                 !.teleport_count = teleport_count_or_default(tc),
                                 !.delay_seconds = interval_or_default(a.interval),
                                 !.return_to_original = return_to_origin_or_default(rto)]
  /\ UNCHANGED <<records, now, tasks, last, lastStore, hist, frozen, loop>>

\* One round of `for i in 0..teleport_count` that does not break: the
\* teleport_user call and its result.
haunt_teleport ==
  /\ haunt.pc = "loop"
  /\ haunt.i < haunt.teleport_count
  /\ ~haunt.failed
  /\ \E ok \in BOOLEAN :
       haunt' = [haunt EXCEPT
         !.log = Append(@, Relocation("move", ok)),
         !.failed = ~ok,
         !.pc = IF wait_before_next(~ok, haunt.i, haunt.teleport_count)
                THEN "sleep" ELSE "loop",
         !.i = IF wait_before_next(~ok, haunt.i, haunt.teleport_count)
               THEN @ ELSE @ + 1]
  /\ UNCHANGED <<records, now, tasks, last, lastStore, hist, frozen, loop>>

\* tokio::time::sleep at the end of a round.
haunt_sleep ==
  /\ haunt.pc = "sleep"
  /\ haunt' = [haunt EXCEPT !.log = Append(@, Sleep(haunt.delay_seconds)),
                            !.pc = "loop", !.i = @ + 1]
  /\ UNCHANGED <<records, now, tasks, last, lastStore, hist, frozen, loop>>

\* The loop is left: the range is used up, or the round starts with failed
\* set and breaks.
haunt_loop_exit ==
  /\ haunt.pc = "loop"
  /\ haunt.i >= haunt.teleport_count \/ haunt.failed
  /\ haunt' = [haunt EXCEPT !.pc = "after"]
  /\ UNCHANGED <<records, now, tasks, last, lastStore, hist, frozen, loop>>

\* After the loop: the teleport to the original channel, whose result is
\* thrown away, and Ok(()).
haunt_return ==
  /\ haunt.pc = "after"
  /\ IF returns_to_original(haunt.return_to_original, haunt.failed)
     THEN \E ok \in BOOLEAN :
            haunt' = [haunt EXCEPT !.log = Append(@, Relocation("return", ok)),
                                   !.pc = "done", !.res = "Ok"]
     ELSE haunt' = [haunt EXCEPT !.pc = "done", !.res = "Ok"]
  /\ UNCHANGED <<records, now, tasks, last, lastStore, hist, frozen, loop>>

\* The caller has the result; the handler can be called again.
haunt_returned ==
  /\ haunt.pc = "done"
  /\ haunt' = NoHaunt
  /\ UNCHANGED <<records, now, tasks, last, lastStore, hist, frozen, loop>>

\* ------------------------------------------------------- specifications
Next ==
  \/ Tick
  \/ \E u \in ServiceUsers, a \in ServiceActions : create_enforcement(u, a)
  \/ \E t \in Tasks, id \in Ids : process_enforcement_get(t, id)
  \/ \E t \in Tasks : process_execute(t)
  \/ \E t \in Tasks : process_call_execute(t)
  \/ \E t \in Tasks : process_execute_return(t)
  \/ \E t \in Tasks : process_active_check(t)
  \/ \E t \in Tasks : process_reverse(t)
  \/ \E t \in Tasks : process_call_reverse(t)
  \/ \E t \in Tasks : process_reverse_return(t)
  \/ \E t \in Tasks, id \in Ids : cancel_enforcement_get(t, id)
  \/ \E t \in Tasks : cancel_store_active(t)
  \/ \E t \in Tasks : cancel_call_reverse(t)
  \/ \E t \in Tasks : cancel_reverse_return(t)
  \/ \E t \in Tasks : cancel_store_other(t)
  \/ \E t \in Tasks, u \in ServiceUsers : cancel_all_for_user_get(t, u)
  \/ \E t \in Tasks : cancel_all_next(t)
  \/ \E t \in Tasks : cancel_all_store_start(t)
  \/ \E t \in Tasks : store_cancel_all_skip(t)
  \/ \E t \in Tasks : store_cancel_all_step(t)
  \/ \E t \in Tasks : store_cancel_all_block(t)
  \/ \E t \in Tasks : cancel_all_return(t)

Spec == Init /\ [][Next]_vars

NextStore ==
  \/ Tick
  \/ \E u \in ServiceUsers, a \in StoreActions : store_add(u, a)
  \/ \E id \in Ids : record_execute(id)
  \/ \E id \in Ids : record_reverse(id)
  \/ \E id \in Ids : record_cancel(id)
  \/ \E id \in Ids : store_execute(id)
  \/ \E id \in Ids : store_reverse(id)
  \/ \E id \in Ids : store_cancel(id)
  \/ \E u \in Users : store_cancel_all_returns(u)
  \/ \E u \in Users : store_cancel_all_blocks(u)

SpecStore == Init /\ [][NextStore]_vars

\* Records of every action of the taxonomy, created and executed.
NextTaxonomy ==
  \/ Tick
  \/ \E u \in ServiceUsers, a \in AllActions : store_add(u, a)
  \/ \E id \in Ids : store_execute(id)

SpecTaxonomy == Init /\ [][NextTaxonomy]_vars

\* The steps of a process_enforcement call of the scheduling task.
LoopProcess ==
  \/ process_execute(LoopTask)
  \/ process_call_execute(LoopTask)
  \/ process_execute_return(LoopTask)
  \/ process_active_check(LoopTask)
  \/ process_reverse(LoopTask)
  \/ process_call_reverse(LoopTask)
  \/ process_reverse_return(LoopTask)

\* The scheduling task with its channel, beside a caller that creates,
\* notifies, cancels and cancels all.
NextLoop ==
  \/ Tick
  \/ \E u \in ServiceUsers, a \in ServiceActions : create_enforcement(u, a)
  \/ import_and_start
  \/ \E u \in ServiceUsers : notify_about_user(u)
  \/ \E id \in Ids : notify_about_enforcement(id)
  \/ notify_check_all
  \/ send_shutdown
  \/ interval_tick
  \/ recv_check_all
  \/ recv_check_user
  \/ recv_check_enforcement
  \/ recv_shutdown
  \/ check_all_pending
  \/ check_all_active
  \/ sweep_process
  \/ check_all_return
  \/ check_user_pending
  \/ check_user_active
  \/ user_sweep_process
  \/ check_user_return
  \/ process_execute(LoopTask)
  \/ process_call_execute(LoopTask)
  \/ process_execute_return(LoopTask)
  \/ process_active_check(LoopTask)
  \/ process_reverse(LoopTask)
  \/ process_call_reverse(LoopTask)
  \/ process_reverse_return(LoopTask)
  \/ \E id \in Ids : cancel_enforcement_get(Caller, id)
  \/ cancel_store_active(Caller)
  \/ cancel_call_reverse(Caller)
  \/ cancel_reverse_return(Caller)
  \/ cancel_store_other(Caller)
  \/ \E u \in ServiceUsers : cancel_all_for_user_get(Caller, u)
  \/ cancel_all_next(Caller)
  \/ cancel_all_store_start(Caller)
  \/ store_cancel_all_skip(Caller)
  \/ store_cancel_all_step(Caller)
  \/ store_cancel_all_block(Caller)
  \/ cancel_all_return(Caller)

SpecLoop == Init /\ [][NextLoop]_vars

\* Periodic sweeps over SweepRecords records beside a caller that cancels.
NextSweep ==
  \/ Tick
  \/ \E u \in ServiceUsers, a \in ServiceActions : create_record(SweepRecords, u, a)
  \/ import_and_start
  \/ interval_tick
  \/ check_all_pending
  \/ check_all_active
  \/ sweep_process
  \/ check_all_return
  \/ process_execute(LoopTask)
  \/ process_call_execute(LoopTask)
  \/ process_execute_return(LoopTask)
  \/ process_active_check(LoopTask)
  \/ process_reverse(LoopTask)
  \/ process_call_reverse(LoopTask)
  \/ process_reverse_return(LoopTask)
  \/ \E id \in AllIds : cancel_enforcement_get(Caller, id)
  \/ cancel_store_active(Caller)
  \/ cancel_call_reverse(Caller)
  \/ cancel_reverse_return(Caller)
  \/ cancel_store_other(Caller)

SpecSweep == Init /\ [][NextSweep]_vars

\* One caller of the service, with ids of records and ids no record has,
\* and store calls with the latter.
NextNotFound ==
  \/ Tick
  \/ \E u \in ServiceUsers, a \in ServiceActions : create_enforcement(u, a)
  \/ \E id \in AllIds \ DOMAIN records : store_execute(id)
  \/ \E id \in AllIds \ DOMAIN records : store_reverse(id)
  \/ \E id \in AllIds \ DOMAIN records : store_cancel(id)
  \/ \E id \in AllIds : process_enforcement_get(Caller, id)
  \/ process_execute(Caller)
  \/ process_call_execute(Caller)
  \/ process_execute_return(Caller)
  \/ process_active_check(Caller)
  \/ process_reverse(Caller)
  \/ process_call_reverse(Caller)
  \/ process_reverse_return(Caller)
  \/ \E id \in AllIds : cancel_enforcement_get(Caller, id)
  \/ cancel_store_active(Caller)
  \/ cancel_call_reverse(Caller)
  \/ cancel_reverse_return(Caller)
  \/ cancel_store_other(Caller)

SpecNotFound == Init /\ [][NextNotFound]_vars

\* Two callers of the service processing and cancelling records of every
\* action of the taxonomy.
NextKinds ==
  \/ Tick
  \/ \E u \in ServiceUsers, a \in AllActions : create_enforcement(u, a)
  \/ \E t \in Tasks, id \in Ids : process_enforcement_get(t, id)
  \/ \E t \in Tasks : process_execute(t)
  \/ \E t \in Tasks : process_call_execute(t)
  \/ \E t \in Tasks : process_execute_return(t)
  \/ \E t \in Tasks : process_active_check(t)
  \/ \E t \in Tasks : process_reverse(t)
  \/ \E t \in Tasks : process_call_reverse(t)
  \/ \E t \in Tasks : process_reverse_return(t)
  \/ \E t \in Tasks, id \in Ids : cancel_enforcement_get(t, id)
  \/ \E t \in Tasks : cancel_store_active(t)
  \/ \E t \in Tasks : cancel_call_reverse(t)
  \/ \E t \in Tasks : cancel_reverse_return(t)
  \/ \E t \in Tasks : cancel_store_other(t)

SpecKinds == Init /\ [][NextKinds]_vars

\* Calls of the VoiceChannelHaunt handler's execute, one at a time.
HauntCallActions ==
  {Action("VoiceChannelHaunt", None, i) : i \in Durations}
    \cup {Action("None", None, None)}

NextHaunt ==
  \/ \E a \in HauntCallActions, tc \in TeleportCounts, rto \in ReturnChoices,
        lookup \in HauntLookups : haunt_execute(a, tc, rto, lookup)
  \/ haunt_teleport
  \/ haunt_sleep
  \/ haunt_loop_exit
  \/ haunt_return
  \/ haunt_returned

SpecHaunt == Init /\ [][NextHaunt]_vars

\* check_user_enforcements asked for through the channel, over SweepRecords
\* records of two users, beside a caller that cancels.
NextUser ==
  \/ Tick
  \/ \E u \in Users, a \in ServiceActions : create_record(SweepRecords, u, a)
  \/ import_and_start
  \/ \E u \in ServiceUsers : notify_about_user(u)
  \/ recv_check_user
  \/ check_user_pending
  \/ check_user_active
  \/ user_sweep_process
  \/ check_user_return
  \/ process_execute(LoopTask)
  \/ process_call_execute(LoopTask)
  \/ process_execute_return(LoopTask)
  \/ process_active_check(LoopTask)
  \/ process_reverse(LoopTask)
  \/ process_call_reverse(LoopTask)
  \/ process_reverse_return(LoopTask)
  \/ \E id \in AllIds : cancel_enforcement_get(Caller, id)
  \/ cancel_store_active(Caller)
  \/ cancel_call_reverse(Caller)
  \/ cancel_reverse_return(Caller)
  \/ cancel_store_other(Caller)

SpecUser == Init /\ [][NextUser]_vars

\* The scheduler runs the task and the handlers return; the interval fires
\* again and again however many requests arrive.
LoopFairness ==
  /\ WF_vars(LoopProcess)
  /\ SF_vars(interval_tick)
  /\ WF_vars(recv_check_all \/ recv_check_user \/ recv_check_enforcement \/ recv_shutdown)
  /\ WF_vars(check_all_pending \/ check_all_active \/ sweep_process \/ check_all_return)
  /\ WF_vars(check_user_pending \/ check_user_active \/ user_sweep_process \/ check_user_return)

SpecLoopFair == SpecLoop /\ LoopFairness

\* ------------------------------------------------------------ properties
Terminal == {"Reversed", "Completed", "Cancelled"}

\* C1: for every record, under any interleaving of concurrent
\* process_enforcement calls, the store's Pending -> {Active, Completed}
\* transition succeeds at most once (exactly once as soon as any caller got
\* past it), the handler's execute is invoked at most once, and only by a
\* caller whose transition succeeded; a racing caller does neither.
ExecuteOnce ==
  \A id \in DOMAIN records :
    /\ hist[id].execOk <= 1
    /\ hist[id].execCalls <= hist[id].execOk
    /\ IsSome(records[id].executed_at) = (hist[id].execOk = 1)
    /\ \A t \in Tasks :
         (tasks[t].pc \in {"p_call_execute", "p_in_execute"} /\ tasks[t].id = id)
           => hist[id].execOk = 1

\* Two callers raced for the same Pending record: one is inside the
\* handler's execute, the other is about to ask the store for the transition.
ExecuteRace ==
  \E t1 \in Tasks, t2 \in Tasks :
    /\ tasks[t1].pc = "p_in_execute"
    /\ tasks[t2].pc = "p_execute"
    /\ tasks[t1].id = tasks[t2].id

\* C2: for every record, under any interleaving of a scheduled reversal
\* with a cancellation, at most one transition out of Active succeeds, the
\* handler's reverse is invoked at most once, and only by a caller whose
\* transition out of Active succeeded.
ReverseOnce ==
  \A id \in DOMAIN records :
    /\ hist[id].leftActive <= 1
    /\ hist[id].revCalls <= hist[id].leftActive
    /\ \A t \in Tasks :
         (tasks[t].pc \in {"p_call_reverse", "p_in_reverse",
                           "c_call_reverse", "c_in_reverse"} /\ tasks[t].id = id)
           => hist[id].leftActive = 1

\* A due reversal and a cancellation raced for the same Active record: the
\* cancellation is inside the handler's reverse, the reversal is about to ask
\* the store for Active -> Reversed.
ReverseRace ==
  \E t1 \in Tasks, t2 \in Tasks :
    /\ tasks[t1].pc = "c_in_reverse"
    /\ tasks[t2].pc = "p_reverse"
    /\ tasks[t1].id = tasks[t2].id

\* C3: whatever execute / reverse / cancel is called, on the record or
\* through the store, a record's state changes only along Pending -> Active,
\* Pending -> Completed, Pending -> Cancelled, Active -> Reversed and
\* Active -> Cancelled; Reversed, Completed and Cancelled are never left.
LegalTransitionsOnly ==
  [][\A id \in DOMAIN records :
       records'[id].state # records[id].state
         => <<records[id].state, records'[id].state>> \in
              {<<"Pending", "Active">>, <<"Pending", "Completed">>,
               <<"Pending", "Cancelled">>, <<"Active", "Reversed">>,
               <<"Active", "Cancelled">>}]_vars

\* A cancel was attempted on a Reversed record, which is still Reversed.
CancelAfterReversed ==
  /\ lastStore.op = "cancel"
  /\ lastStore.id \in DOMAIN records
  /\ records[lastStore.id].state = "Reversed"

\* C4: an execute from a state other than Pending, a reverse from a state
\* other than Active and a cancel from Reversed, Completed or Cancelled
\* return InvalidStateTransition and leave every field of the record as it
\* was before the call.
IllegalLeavesRecord ==
  (lastStore.op \in {"execute", "reverse", "cancel"} /\ IsSome(lastStore.pre))
    => LET p == Unwrap(lastStore.pre)
           illegal == CASE lastStore.op = "execute" -> p.state # "Pending"
                        [] lastStore.op = "reverse" -> p.state # "Active"
                        [] lastStore.op = "cancel" -> p.state \in Terminal
       IN illegal => /\ lastStore.res = "InvalidStateTransition"
                     /\ records[lastStore.id] = p

\* An execute was rejected on a record cancelled before it was ever executed.
ExecuteRejected ==
  /\ lastStore.op = "execute"
  /\ lastStore.res = "InvalidStateTransition"
  /\ IsSome(lastStore.pre)
  /\ Unwrap(lastStore.pre).state = "Cancelled"
  /\ ~Unwrap(lastStore.pre).executed

\* C5: process_enforcement executes a Pending record only if it is due, so
\* no record has executed_at stamped before its execute_at.
NoEarlyExecution ==
  \A id \in DOMAIN records :
    IsSome(records[id].executed_at)
      => records[id].execute_at <= Unwrap(records[id].executed_at)

CancelledActiveReversedOnce ==
  \A id \in DOMAIN records :
    ( /\ records[id].state = "Cancelled"
      /\ IsSome(records[id].executed_at)
      /\ \A t \in Tasks : ~(tasks[t].pc = "c_call_reverse" /\ tasks[t].id = id) )
      => hist[id].revCalls = 1

\* C8: on the sweep path the store transition comes before the handler call
\* and is kept whatever the handler returns: once execute (reverse) has been
\* invoked the record is never Pending (Pending or Active) again, and
\* process_enforcement returns Ok when the handler returned an error.
NoRollback ==
  /\ \A id \in DOMAIN records :
       /\ hist[id].execCalls >= 1
            => records[id].state # "Pending" /\ IsSome(records[id].executed_at)
       /\ hist[id].revCalls >= 1 => records[id].state \in {"Reversed", "Cancelled"}
  /\ \A t \in Tasks :
       /\ tasks[t].pc \in {"p_call_execute", "p_in_execute"}
            => records[tasks[t].id].state # "Pending"
       /\ tasks[t].pc \in {"p_call_reverse", "p_in_reverse"}
            => records[tasks[t].id].state = "Reversed"
  /\ (last.op = "process" /\ last.herr \notin {"none", "Ok"}) => last.res = "Ok"

\* process_enforcement returned after the handler's execute failed, and the
\* record is in the state the store transition gave it.
HandlerFailedKept ==
  /\ last.op = "process"
  /\ last.herr = "ValidationFailed"
  /\ last.res = "Ok"
  /\ \E id \in DOMAIN records :
       records[id].state = "Completed" /\ hist[id].execCalls = 1

\* C9: through the service a record becomes Reversed only from Active with
\* reverse_at set and not later than the clock; process_enforcement on an
\* Active record that is not due, and on a Reversed, Completed or Cancelled
\* record, returns at once and changes no record and invokes no handler.
ReversedOnlyWhenDue ==
  [][/\ \A id \in DOMAIN records :
          (records'[id].state = "Reversed" /\ records[id].state # "Reversed")
            => /\ records[id].state = "Active"
               /\ IsSome(records[id].reverse_at)
               /\ Unwrap(records[id].reverse_at) <= now
     /\ \A t \in Tasks :
          /\ \A id \in DOMAIN records :
               (process_enforcement_get(t, id) /\ records[id].state \in Terminal)
                 => tasks' = tasks /\ records' = records /\ hist' = hist
          /\ ( /\ process_active_check(t)
               /\ ~( /\ IsSome(records[tasks[t].id].reverse_at)
                     /\ Unwrap(records[tasks[t].id].reverse_at) <= now) )
               => tasks'[t] = Idle /\ records' = records /\ hist' = hist]_vars

\* A record was reversed by the sweep path: Reversed, handler invoked.
ReversedBySweep ==
  \E id \in DOMAIN records, t \in Tasks :
    /\ records[id].state = "Reversed"
    /\ tasks[t].pc = "p_in_reverse"
    /\ tasks[t].id = id

\* C10: executing a Pending record succeeds and stamps executed_at (not
\* before the call); when the action does not need reversal the record is
\* Completed with reverse_at None, when it does the record is Active with
\* reverse_at the time of the execution plus the action's duration.
ExecuteOutcome ==
  ( /\ lastStore.op = "execute"
    /\ IsSome(lastStore.pre)
    /\ Unwrap(lastStore.pre).state = "Pending" )
    => LET p == Unwrap(lastStore.pre)
           r == records[lastStore.id]
       IN /\ lastStore.res = "Ok"
          /\ IsSome(r.executed_at)
          /\ lastStore.at <= Unwrap(r.executed_at)
          /\ r.executed
          /\ IF needs_reversal(p.action)
             THEN /\ r.state = "Active"
                  /\ r.reverse_at =
                       Some(lastStore.at + Unwrap(p.action.duration))
             ELSE /\ r.state = "Completed"
                  /\ r.reverse_at = None

\* A record with a reversible, timed action has just been executed.
ExecutedToActive ==
  /\ lastStore.op = "execute"
  /\ lastStore.res = "Ok"
  /\ records[lastStore.id].state = "Active"
  /\ records[lastStore.id].reverse_at # None

\* C11: a record that cancel_enforcement took from Pending to Cancelled has
\* had no handler invoked for it, neither execute nor reverse, and no caller
\* is on its way to invoke one: its effect is never applied.
CancelPendingNoHandler ==
  \A id \in DOMAIN records :
    (records[id].state = "Cancelled" /\ ~IsSome(records[id].executed_at))
      => /\ hist[id].execCalls = 0
         /\ hist[id].revCalls = 0
         /\ hist[id].execOk = 0
         /\ \A t \in Tasks :
              tasks[t].id = id
                => tasks[t].pc \notin {"p_call_execute", "p_in_execute",
                                      "p_call_reverse", "p_in_reverse",
                                      "c_call_reverse", "c_in_reverse"}

\* cancel_enforcement returned Ok for a Pending record, now Cancelled, while
\* a process_enforcement that had read it Pending is still about to ask the
\* store to execute it.
CancelledWhilePending ==
  \E id \in DOMAIN records, t \in Tasks :
    /\ records[id].state = "Cancelled"
    /\ ~IsSome(records[id].executed_at)
    /\ last.op = "cancel"
    /\ last.res = "Ok"
    /\ tasks[t].pc = "p_execute"
    /\ tasks[t].id = id

\* C12: store cancel_all_for_user(u, g) returns, having moved every record
\* of (u, g) that was Pending or Active to Cancelled; it returns exactly
\* those records and leaves every other record as it was.
StoreCancelAllPost ==
  [][\A u \in Users :
       (store_cancel_all_returns(u) \/ store_cancel_all_blocks(u))
         => /\ lastStore'.res = "Ok"
            /\ \A id \in DOMAIN records :
                 IF cancel_all_matches(records[id], u, GuildId)
                 THEN /\ records'[id] = [records[id] EXCEPT !.state = "Cancelled"]
                      /\ id \in lastStore'.ret
                 ELSE /\ records'[id] = records[id]
                      /\ id \notin lastStore'.ret]_vars

\* C13: a Pending record has reverse_at None, and reverse_at changes only
\* in the step that takes the record from Pending to Active or Completed;
\* reverse and cancel leave it as it is.
ReverseAtSetOnce ==
  [][/\ \A id \in DOMAIN records' :
          records'[id].state = "Pending" => records'[id].reverse_at = None
     /\ \A id \in DOMAIN records :
          records'[id].reverse_at # records[id].reverse_at
            => /\ records[id].state = "Pending"
               /\ records'[id].state \in {"Active", "Completed"}]_vars

\* An Active record was cancelled and still carries the reverse_at its
\* execution gave it.
CancelKeepsReverseAt ==
  /\ lastStore.op = "cancel"
  /\ lastStore.res = "Ok"
  /\ records[lastStore.id].state = "Cancelled"
  /\ IsSome(records[lastStore.id].reverse_at)

\* C14: a record in state Active has executed_at set and reverse_at set.
ActiveHasTimes ==
  \A id \in DOMAIN records :
    records[id].state = "Active"
      => IsSome(records[id].executed_at) /\ IsSome(records[id].reverse_at)

\* A record is Active, executed some time after it was created.
ActiveLater ==
  \E id \in DOMAIN records :
    /\ records[id].state = "Active"
    /\ IsSome(records[id].executed_at)
    /\ Unwrap(records[id].executed_at) > records[id].created_at

\* C15: a record in state Completed has executed_at set and reverse_at None.
CompletedHasTimes ==
  \A id \in DOMAIN records :
    records[id].state = "Completed"
      => IsSome(records[id].executed_at) /\ records[id].reverse_at = None

\* A mute without a positive duration was executed and is Completed.
MuteCompleted ==
  \E id \in DOMAIN records :
    /\ records[id].state = "Completed"
    /\ records[id].action.kind = "Mute"

\* C16: a record enters Reversed only from Active, and a Reversed record
\* has reversed_at and executed_at set; reversing an Active record (one
\* created with an action that needs reversal, then executed) succeeds.
ReversedFromActive ==
  [][\A id \in DOMAIN records :
       /\ records'[id].state = "Reversed"
            => /\ records[id].state \in {"Active", "Reversed"}
               /\ IsSome(records'[id].reversed_at)
               /\ IsSome(records'[id].executed_at)
       /\ ((record_reverse(id) \/ store_reverse(id)) /\ records[id].state = "Active")
            => /\ needs_reversal(records[id].action)
               /\ records'[id].state = "Reversed"
               /\ lastStore'.res = "Ok"]_vars

\* create, execute, reverse: the reverse returned Ok and the record is
\* Reversed with both stamps.
RoundTripReversed ==
  /\ lastStore.op = "reverse"
  /\ lastStore.res = "Ok"
  /\ records[lastStore.id].state = "Reversed"
  /\ IsSome(records[lastStore.id].executed_at)
  /\ IsSome(records[lastStore.id].reversed_at)

\* C17: no operation of the service removes a record or changes its
\* warning_id, action, user_id, guild_id, created_at or execute_at; a record
\* stays under the id it was stored under.
IdentityImmutable ==
  [][\A id \in DOMAIN records :
       /\ id \in DOMAIN records'
       /\ \A f \in {"warning_id", "action", "user_id", "guild_id",
                     "created_at", "execute_at"} :
            records'[id][f] = records[id][f]]_vars

\* cancel_all_for_user returned after a record had been executed and then
\* cancelled.
CancelAllAfterExecute ==
  \E id \in DOMAIN records :
    /\ last.op = "cancel_all"
    /\ records[id].state = "Cancelled"
    /\ IsSome(records[id].executed_at)

\* C18: the first execute of a record returns Ok; an execute of a record
\* that has been executed returns InvalidStateTransition and leaves
\* executed_at, reverse_at and state as they were.
SecondExecuteRejected ==
  (lastStore.op = "execute" /\ IsSome(lastStore.pre))
    => LET p == Unwrap(lastStore.pre)
           r == records[lastStore.id]
       IN /\ (p.state = "Pending") = (lastStore.res = "Ok")
          /\ p.executed
               => /\ lastStore.res = "InvalidStateTransition"
                  /\ r.executed_at = p.executed_at
                  /\ r.reverse_at = p.reverse_at
                  /\ r.state = p.state

\* A second execute was called on an Active record, later than the first.
ExecuteTwice ==
  /\ lastStore.op = "execute"
  /\ lastStore.res = "InvalidStateTransition"
  /\ IsSome(lastStore.pre)
  /\ Unwrap(lastStore.pre).state = "Active"
  /\ lastStore.at > Unwrap(Unwrap(lastStore.pre).executed_at)

\* C19: over every kind and every duration (absent, 0, positive),
\* needs_reversal is true exactly for Mute, Ban, VoiceMute and VoiceDeafen
\* with a positive duration, and false for Kick, VoiceDisconnect,
\* VoiceChannelHaunt and None whatever their parameters; an executed record
\* is Active exactly when it is true.
NeedsReversalIff ==
  \A id \in DOMAIN records :
    LET a == records[id].action
        timed == /\ a.kind \in {"Mute", "Ban", "VoiceMute", "VoiceDeafen"}
                 /\ a.duration # None
                 /\ Unwrap(a.duration) > 0
    IN /\ needs_reversal(a) = timed
       /\ a.kind \in {"Kick", "VoiceDisconnect", "VoiceChannelHaunt", "None"}
            => ~needs_reversal(a)
       /\ IsSome(records[id].executed_at) => (records[id].state = "Active") = timed

\* A ban with duration 0 was executed: it needs no reversal and is Completed.
BanZeroCompleted ==
  \E id \in DOMAIN records :
    /\ records[id].action.kind = "Ban"
    /\ records[id].action.duration = Some(0)
    /\ records[id].state = "Completed"

\* C20 as stated: a new record's execute_at is exactly created_at plus the
\* delay of its action (duration of Kick / VoiceDisconnect, interval of
\* VoiceChannelHaunt, when positive; nothing otherwise); it is Pending with
\* reverse_at, executed_at and reversed_at unset and is in the store under
\* its id.
NewRecordExactTime ==
  lastStore.op = "add"
    => /\ lastStore.id \in DOMAIN records
       /\ LET r == records[lastStore.id]
              a == r.action
              delay == IF a.kind \in {"Kick", "VoiceDisconnect"} /\ has_duration(a)
                       THEN Unwrap(a.duration)
                       ELSE IF a.kind = "VoiceChannelHaunt" /\ IsSome(a.interval)
                            THEN Unwrap(a.interval)
                            ELSE 0
          IN /\ r.execute_at = r.created_at + delay
             /\ r.state = "Pending"
             /\ r.reverse_at = None
             /\ r.executed_at = None
             /\ r.reversed_at = None

\* C20 as the code has it: created_at is the clock at the start of new();
\* execute_at is a later read of the clock, inside calculate_execute_time,
\* plus the delay of the action, so it is never earlier than created_at plus
\* the delay and never later than the present clock plus the delay.  The
\* record is Pending with reverse_at, executed_at and reversed_at unset and
\* is in the store under its id.
NewRecordTime ==
  lastStore.op = "add"
    => /\ lastStore.id \in DOMAIN records
       /\ LET r == records[lastStore.id]
              a == r.action
              delay == IF a.kind \in {"Kick", "VoiceDisconnect"} /\ has_duration(a)
                       THEN Unwrap(a.duration)
                       ELSE IF a.kind = "VoiceChannelHaunt" /\ IsSome(a.interval)
                            THEN Unwrap(a.interval)
                            ELSE 0
          IN /\ r.created_at = lastStore.at
             /\ r.created_at + delay <= r.execute_at
             /\ r.execute_at <= now + delay
             /\ r.state = "Pending"
             /\ r.reverse_at = None
             /\ r.executed_at = None
             /\ r.reversed_at = None

\* A delayed disconnect was created while the clock moved on between the
\* two reads of new().
NewRecordSkewed ==
  /\ lastStore.op = "add"
  /\ records[lastStore.id].action.kind = "VoiceDisconnect"
  /\ has_duration(records[lastStore.id].action)
  /\ records[lastStore.id].execute_at >
       records[lastStore.id].created_at + Unwrap(records[lastStore.id].action.duration)

\* C21: is_immediate() is true exactly when the scheduling-relevant delay is
\* absent or zero: for Kick and VoiceDisconnect when the duration is absent
\* or 0, for VoiceChannelHaunt when the interval is absent or 0, and always
\* for Mute, Ban, VoiceMute, VoiceDeafen and None.
IsImmediateIff ==
  \A id \in DOMAIN records :
    LET a == records[id].action
    IN is_immediate(a) =
         CASE a.kind \in {"Kick", "VoiceDisconnect"} ->
                a.duration = None \/ a.duration = Some(0)
           [] a.kind = "VoiceChannelHaunt" ->
                a.interval = None \/ a.interval = Some(0)
           [] OTHER -> TRUE

\* A stored haunt with a positive interval is not immediate.
HauntDelayedNotImmediate ==
  /\ lastStore.op = "add"
  /\ records[lastStore.id].action.kind = "VoiceChannelHaunt"
  /\ records[lastStore.id].action.interval = Some(MaxDuration)
  /\ ~is_immediate(records[lastStore.id].action)

\* C26: when the registry dispatches an action to the handler registered for
\* the action's own kind, the handler never answers ValidationFailed: a
\* process_enforcement call never ends with that handler error.
DispatchNeverValidationFailed ==
  last.op = "process" => last.herr # "ValidationFailed"

\* C25: no store guard is held by a task while it is inside a handler
\* execute or reverse call of process_enforcement or cancel_enforcement, so
\* a suspended handler call blocks no store operation of another task on
\* any id.
NoGuardAcrossHandler ==
  \A t \in Tasks :
    tasks[t].pc \in {"p_in_execute", "p_in_reverse", "c_in_reverse"} =>
      /\ tasks[t].held = {}
      /\ \A id \in DOMAIN records : id \notin frozen => CanLock(id)

\* While one caller is suspended in the handler's execute, another caller's
\* cancel went through the store on the same record.
CancelledDuringHandler ==
  \E t \in Tasks :
    /\ tasks[t].pc = "p_in_execute"
    /\ records[tasks[t].id].state = "Cancelled"

\* The scheduling task has been started and has not received Shutdown.
LoopRunning == loop.pc \notin {"off", "stopped"}

\* C23: while the scheduling loop is running and timer ticks occur fairly,
\* every record that is Pending with execute_at <= now eventually leaves
\* Pending, and every record that is Active with reverse_at <= now
\* eventually leaves Active.
DueEventuallyProcessed ==
  \A id \in Ids :
    /\ (LoopRunning /\ id \in DOMAIN records
          /\ is_due_for_execution(records[id], now))
         ~> (~LoopRunning \/ (id \in DOMAIN records /\ records[id].state # "Pending"))
    /\ (LoopRunning /\ id \in DOMAIN records
          /\ is_due_for_reversal(records[id], now))
         ~> (~LoopRunning \/ (id \in DOMAIN records /\ records[id].state # "Active"))

\* C22: once the scheduling loop has received Shutdown it never moves
\* again: requests queued behind Shutdown and later timer ticks start no
\* process_enforcement, check_all_enforcements or check_user_enforcements.
ShutdownStops ==
  [][loop.shut => (loop' = loop /\ tasks'[LoopTask] = tasks[LoopTask])]_vars

\* The loop has stopped with a request still queued behind Shutdown and a
\* record that is due.
StoppedWithWorkLeft ==
  /\ loop.shut
  /\ loop.queue # <<>>
  /\ \E id \in DOMAIN records : is_due_for_execution(records[id], now)

IdsNeverShrink == [][DOMAIN records \subseteq DOMAIN records']_vars

\* A Reversed record is still in the store after a cancel_all_for_user
\* returned.
ReversedStillStored ==
  /\ last.op = "cancel_all"
  /\ \E id \in DOMAIN records : records[id].state = "Reversed"

\* C29: a notify_* call on a service without sender returns an error and
\* queues nothing; with the sender set and the loop running it queues
\* exactly one request of its kind.
NotifyEnqueuesOne ==
  [][/\ \A u \in ServiceUsers :
          notify_about_user(u) =>
            /\ ~loop.tx => (last'.res = "Other" /\ loop'.queue = loop.queue)
            /\ LoopRunning =>
                 (last'.res = "Ok" /\ loop'.queue = Append(loop.queue, CheckUser(u)))
     /\ \A id \in Ids :
          notify_about_enforcement(id) =>
            /\ ~loop.tx => (last'.res = "Other" /\ loop'.queue = loop.queue)
            /\ LoopRunning =>
                 (last'.res = "Ok"
                    /\ loop'.queue = Append(loop.queue, CheckEnforcement(id)))
     /\ notify_check_all =>
          /\ ~loop.tx => (last'.res = "Other" /\ loop'.queue = loop.queue)
          /\ LoopRunning =>
               (last'.res = "Ok" /\ loop'.queue = Append(loop.queue, CheckAll))
    ]_vars

\* Two notifications are queued in the order they were made.
TwoRequestsQueued ==
  /\ last.op = "notify_check_all"
  /\ last.res = "Ok"
  /\ loop.queue = <<CheckUser(12345), CheckAll>>

\* C30: get_pending_for_execution returns exactly the ids of the records
\* that are Pending with execute_at <= now, get_active_for_reversal exactly
\* those that are Active with reverse_at set and <= now; no Reversed,
\* Completed or Cancelled record is in either list.
DueListsExact ==
  [][/\ check_all_pending =>
          /\ loop'.pending =
               {id \in DOMAIN records :
                  records[id].state = "Pending" /\ records[id].execute_at <= now}
          /\ \A id \in loop'.pending : records[id].state \notin Terminal
     /\ check_all_active =>
          /\ loop'.active =
               {id \in DOMAIN records :
                  /\ records[id].state = "Active"
                  /\ records[id].reverse_at # None
                  /\ Unwrap(records[id].reverse_at) <= now}
          /\ \A id \in loop'.active : records[id].state \notin Terminal
    ]_vars

\* The pending list holds the due record and neither the Pending record
\* that is not due yet nor the terminal one.
DueListedOthersNot ==
  /\ loop.pc = "check_all_active"
  /\ loop.pending # {}
  /\ \E id \in DOMAIN records \ loop.pending :
       records[id].state = "Pending" \/ records[id].state \in Terminal

\* C27: the store's execute_enforcement / reverse_enforcement /
\* cancel_enforcement and the service's process_enforcement /
\* cancel_enforcement, called with an id that is not in the store, return
\* NotFound, invoke no handler and leave the store unchanged.
NotFoundLeavesStore ==
  [][\A id \in AllIds \ DOMAIN records :
       /\ (store_execute(id) \/ store_reverse(id) \/ store_cancel(id)) =>
            /\ lastStore'.res = "NotFound"
            /\ records' = records
            /\ hist' = hist
       /\ (process_enforcement_get(Caller, id) \/ cancel_enforcement_get(Caller, id)) =>
            /\ last'.res = "NotFound"
            /\ records' = records
            /\ hist' = hist
            /\ tasks' = tasks
    ]_vars

\* Beside a stored record, a store call and a service call on a missing id
\* both returned NotFound.
MissingIdNotFound ==
  /\ DOMAIN records # {}
  /\ lastStore.id \notin DOMAIN records
  /\ lastStore.res = "NotFound"
  /\ last.res = "NotFound"

\* C36: the handler's execute is invoked for a record only after the
\* record's Pending -> {Active, Completed} store transition succeeded in the
\* same process_enforcement call: a task that is about to call or is inside
\* the handler's execute has made the transition itself (the record carries
\* executed_at and counts one successful transition), no record has more
\* execute calls than successful transitions, and a record that went
\* Pending -> Cancelled (Cancelled with executed_at absent) never has
\* execute invoked, whatever the interleaving of cancel and process.
ExecuteAfterTransition ==
  /\ \A t \in Tasks :
       tasks[t].pc \in {"p_call_execute", "p_in_execute"} =>
         /\ tasks[t].id \in DOMAIN records
         /\ IsSome(records[tasks[t].id].executed_at)
         /\ records[tasks[t].id].state # "Pending"
         /\ hist[tasks[t].id].execOk >= 1
  /\ \A id \in DOMAIN records :
       /\ hist[id].execCalls <= hist[id].execOk
       /\ (records[id].state = "Cancelled" /\ ~IsSome(records[id].executed_at)) =>
            hist[id].execCalls = 0

\* A cancel overtook a process_enforcement call that had already read the
\* record as Pending and is about to ask the store for the transition, which
\* the store will refuse.
CancelOvertookProcess ==
  \E id \in DOMAIN records :
    /\ records[id].state = "Cancelled"
    /\ ~IsSome(records[id].executed_at)
    /\ hist[id].execCalls = 0
    /\ hist[id].execOk = 0
    /\ \E t \in Tasks : tasks[t].pc = "p_execute" /\ tasks[t].id = id

\* C33: for any record the handler's reverse is never invoked before the
\* handler's execute call for that record has returned: while a task is
\* between the Pending -> Active transition and the return of the handler's
\* execute, no reverse has been called for that record and no other task is
\* inside it.
ReverseAfterExecuteReturned ==
  \A t \in Tasks :
    tasks[t].pc \in {"p_call_execute", "p_in_execute"} =>
      /\ hist[tasks[t].id].revCalls = 0
      /\ \A u \in Tasks :
           tasks[u].pc \in {"c_in_reverse", "p_in_reverse"} =>
             tasks[u].id # tasks[t].id

\* C34: store cancel_all_for_user always returns: a call made on a store
\* that holds at least one Pending or Active record of the given user and
\* guild never stays blocked on a shard lock that its own iterator holds,
\* so no record is ever left behind a lock request that cannot be granted.
StoreCancelAllNeverBlocks ==
  /\ frozen = {}
  /\ lastStore.op = "cancel_all" => lastStore.res # "Blocked"

\* C35: the list returned by the service's cancel_all_for_user(u, g)
\* contains every record of (u, g) that the call moved to Cancelled, those
\* that were Pending and those that were Active when the call started.
ReturnedListComplete ==
  [][\A t \in Tasks :
       cancel_all_return(t) =>
         \A id \in DOMAIN records :
           id \in tasks[t].moved => id \in cancel_all_result(t)]_vars

\* C37: the handler's reverse is only ever invoked for records whose action
\* needs reversal, that is Mute, Ban, VoiceMute or VoiceDeafen with a
\* duration above zero.  Every other record (Kick, VoiceDisconnect,
\* VoiceChannelHaunt, None, or one of the four kinds with the duration
\* absent or zero) is never Active or Reversed, is Completed once executed
\* unless it has been cancelled while Pending, and has no reverse call made
\* or about to be made by a due reversal or by a cancellation.
ReverseOnlyForReversible ==
  \A id \in DOMAIN records :
    LET a == records[id].action
        reversible == /\ a.kind \in {"Mute", "Ban", "VoiceMute", "VoiceDeafen"}
                      /\ IsSome(a.duration)
                      /\ Unwrap(a.duration) > 0
    IN ~reversible =>
         /\ records[id].state \in {"Pending", "Completed", "Cancelled"}
         /\ IsSome(records[id].executed_at) => records[id].state = "Completed"
         /\ records[id].reverse_at = None
         /\ hist[id].revCalls = 0
         /\ hist[id].leftActive = 0
         /\ \A t \in Tasks :
              tasks[t].id = id =>
                tasks[t].pc \notin {"p_reverse", "p_call_reverse", "p_in_reverse",
                                    "c_call_reverse", "c_in_reverse"}

\* A VoiceChannelHaunt record has been executed and is Completed, a later
\* cancel of it was refused, and no reverse was called for it.
HauntCompletedCancelRefused ==
  \E id \in DOMAIN records :
    /\ records[id].action.kind = "VoiceChannelHaunt"
    /\ records[id].state = "Completed"
    /\ hist[id].execCalls = 1
    /\ hist[id].revCalls = 0
    /\ last.op = "cancel"
    /\ last.res = "InvalidStateTransition"

\* C38 as stated: for every action, is_immediate() is true if and only if
\* a record created for that action has execute_at equal to its creation
\* time; the two classifications never disagree, VoiceChannelHaunt with the
\* interval absent included.
ImmediateIffExecuteAtCreation ==
  lastStore.op = "add"
    => LET r == records[lastStore.id]
       IN is_immediate(r.action) <=> (r.execute_at = r.created_at)

\* C38 as the code has it: is_immediate() is true if and only if
\* calculate_execute_time adds no delay to the clock it reads, so that the
\* execute_at of the new record is that read; the read comes after the one
\* that stamps created_at, so execute_at is never earlier than created_at
\* and is later than created_at for every action that is not immediate.
\* The two classifications never disagree, VoiceChannelHaunt with the
\* interval absent included.
ImmediateIffNoDelay ==
  [][\A u \in ServiceUsers, a \in AllActions :
       store_add(u, a) =>
         LET r == records'[NextId]
         IN /\ is_immediate(r.action) <=> (r.execute_at = now')
            /\ r.created_at = now
            /\ r.created_at <= r.execute_at
            /\ ~is_immediate(r.action) => r.created_at < r.execute_at
            /\ (r.action.kind = "VoiceChannelHaunt" /\ r.action.interval = None)
                 => is_immediate(r.action) /\ r.execute_at = now']_vars

\* A haunt with the interval absent is immediate and was created while the
\* clock moved on between the two reads of new(): its execute_at is the
\* later read, past created_at.
ImmediateHauntSkewed ==
  /\ lastStore.op = "add"
  /\ records[lastStore.id].action.kind = "VoiceChannelHaunt"
  /\ records[lastStore.id].action.interval = None
  /\ is_immediate(records[lastStore.id].action)
  /\ records[lastStore.id].execute_at = now
  /\ records[lastStore.id].execute_at > records[lastStore.id].created_at

\* C31: the VoiceChannelHaunt handler's execute performs at most
\* teleport_count relocations (3 when absent) followed by at most one
\* relocation back to the original channel, which is then its last call;
\* after the first relocation that fails nothing more is attempted, neither
\* a wait nor another relocation nor the return; the return happens only
\* when return_to_origin is true (the default when absent) and no relocation
\* failed; every wait (of interval seconds, 10 when absent) directly follows
\* a successful relocation of the loop and is directly followed by the next
\* one, so there are fewer waits than teleport_count and none after the last
\* relocation.
HauntRelocationsBounded ==
  LET log == haunt.log
      n == Len(log)
      moves == {k \in 1..n : log[k].ev = "move"}
      rets == {k \in 1..n : log[k].ev = "return"}
      waits == {k \in 1..n : log[k].ev = "wait"}
      count == IF IsSome(haunt.params.teleport_count)
               THEN Unwrap(haunt.params.teleport_count) ELSE 3
      secs == IF IsSome(haunt.params.interval)
              THEN Unwrap(haunt.params.interval) ELSE 10
      back == haunt.params.return_to_origin \in {None, Some(TRUE)}
  IN /\ haunt.res \notin {"none", "Ok"} => n = 0
     /\ Cardinality(moves) <= count
     /\ Cardinality(rets) <= 1
     /\ \A k \in rets : k = n
     /\ \A k \in moves : ~log[k].ok => k = n
     /\ rets # {} => back /\ \A k \in moves : log[k].ok
     /\ (haunt.res = "Ok" /\ back /\ \A k \in moves : log[k].ok) => rets # {}
     /\ Cardinality(waits) < count \/ (count = 0 /\ waits = {})
     /\ \A k \in waits :
          /\ log[k].secs = secs
          /\ k > 1
          /\ log[k - 1].ev = "move"
          /\ log[k - 1].ok
          /\ k < n => log[k + 1].ev = "move"
          /\ haunt.pc \in {"after", "done"} => k < n

\* A call with every parameter absent has finished: three relocations with
\* a wait of 10 between them, then the return to the original channel.
HauntDefaultRun ==
  /\ haunt.pc = "done"
  /\ haunt.res = "Ok"
  /\ haunt.params.teleport_count = None
  /\ haunt.params.interval = None
  /\ haunt.params.return_to_origin = None
  /\ Len(haunt.log) = 6
  /\ haunt.log[2].ev = "wait"
  /\ haunt.log[2].secs = 10
  /\ haunt.log[5].ev = "move"
  /\ haunt.log[6].ev = "return"

\* C32: check_user_enforcements(u, g) changes only records that belong to
\* (u, g) and are due, Pending with execute_at <= now or Active with
\* reverse_at <= now: in every step that is not a step of the cancelling
\* caller, a record that changes, or for which a store transition or a
\* handler call is counted, belongs to the user of the running check and
\* was due when the store transition was made.  Every record of another
\* user and every not-yet-due record of (u, g) stays as it was and has no
\* handler invoked.
CheckUserFrame ==
  [][(tasks[Caller].pc = "idle" /\ tasks'[Caller].pc = "idle") =>
       \A id \in DOMAIN records :
         /\ records'[id] # records[id] =>
              /\ loop.pc = "user_sweep"
              /\ records[id].user_id = loop.user
              /\ records[id].guild_id = GuildId
              /\ \/ records[id].state = "Pending" /\ records[id].execute_at <= now
                 \/ /\ records[id].state = "Active"
                    /\ IsSome(records[id].reverse_at)
                    /\ Unwrap(records[id].reverse_at) <= now
         /\ hist'[id] # hist[id] =>
              /\ loop.pc = "user_sweep"
              /\ records[id].user_id = loop.user
              /\ records[id].execute_at <= now
              /\ hist'[id].revCalls # hist[id].revCalls =>
                   Unwrap(records[id].reverse_at) <= now]_vars

\* A check for user 12345 has executed that user's due record and has
\* passed over a due record of another user and over nothing else: the
\* other record is Pending with no handler call.
OtherUserPassedOver ==
  \E id \in DOMAIN records, other \in DOMAIN records :
    /\ loop.pc = "user_sweep"
    /\ loop.user = 12345
    /\ records[id].user_id = 12345
    /\ IsSome(records[id].executed_at)
    /\ hist[id].execCalls = 1
    /\ records[other].user_id = 98765
    /\ records[other].state = "Pending"
    /\ records[other].execute_at <= now
    /\ hist[other] = NoHist

====
